---------------------------- MODULE Spec2Model ----------------------------
(***************************************************************************)
(* LifeCode (src/1.py): a toroidal cellular automaton whose birth/survive  *)
(* rule is parsed from a DNA string, mutated per tick, and modulated by a  *)
(* nutrient field; a history field records recent occupancy.               *)
(*                                                                         *)
(* Numbers.  Python floats are modelled in fixed point:                    *)
(*   - nutrient values, random.random() draws and the mutation rate are    *)
(*     integers in thousandths (0.9 is 900, random() ranges over 0..999);  *)
(*   - the wave phase and the arguments of math.sin are integers in        *)
(*     hundredths of a radian (the step 0.05 is 5, x * 0.1 is 10 * x).     *)
(* Text.  A string is a sequence of one-character strings.                 *)
(***************************************************************************)
EXTENDS Integers, Sequences, FiniteSets, TLC

(***************************************************************************)
(* Bounds of the model.                                                    *)
(***************************************************************************)
\* side of the grid (GRID_SIZE = 50 in src/1.py:10, shrunk for the model)
GRID_SIZE == 4
\* frames of the main loop explored by Spec, and by SpecMid from each start
MaxTicks == 2
\* frames already run when SpecMid starts late
MidStart == 70
\* rows of the window whose every pattern SpecLife starts from
PatternRows == 3
\* digits after B and after S in the texts SpecParse types
MaxDigits == 2
\* frames of the main loop explored by SpecLong
LongTicks == 302
\* SpecLong polls the R key as pressed only every ResetEvery-th frame
ResetEvery == 100

(***************************************************************************)
(* Program constants.                                                      *)
(***************************************************************************)
\* one in fixed point: thousandths
MILLI == 1000
\* src/1.py:35  random.random() < 0.2
ALIVE_PROB == 200
\* src/1.py:45  wave_phase += 0.05
PHASE_STEP == 5
\* src/1.py:48  x * 0.1 and y * 0.1
SPACE_STEP == 10
\* src/1.py:48  math.sin: pi in hundredths of a radian
PI100 == 314
\* src/1.py:86  nutrient_bonus > 0.9
SURVIVE_NUTRIENT == 900
\* src/1.py:89  nutrient_bonus > 0.1
BIRTH_NUTRIENT == 100
\* src/1.py:93  min(history_map[y][x] + 1, 255)
HISTORY_MAX == 255
\* src/1.py:57  random.randint(0, 8)
MAX_NEIGHBORS == 8

Cells == 0 .. (GRID_SIZE - 1)

Min(a, b) == IF a < b THEN a ELSE b
Max(a, b) == IF a > b THEN a ELSE b

(***************************************************************************)
(* Text: parse_dna (src/1.py:24-30).                                       *)
(***************************************************************************)
\* the global DNA at import time, "B3/S23|M0.01"
DEFAULT_DNA == <<"B", "3", "/", "S", "2", "3", "|", "M", "0", ".", "0", "1">>

DIGITS == <<"0", "1", "2", "3", "4", "5", "6", "7", "8", "9">>

IsDigit(c) == \E i \in 1 .. 10 : DIGITS[i] = c

\* int(n) of a one-character string that is a decimal digit
DigitVal(c) == (CHOOSE i \in 1 .. 10 : DIGITS[i] = c) - 1

\* str.split(sep): the list of the parts between the occurrences of sep
RECURSIVE split(_, _)
split(s, sep) ==
    IF \A i \in 1 .. Len(s) : s[i] # sep
    THEN <<s>>
    ELSE LET i == CHOOSE k \in 1 .. Len(s) :
                      s[k] = sep /\ \A j \in 1 .. (k - 1) : s[j] # sep
         IN  <<SubSeq(s, 1, i - 1)>> \o split(SubSeq(s, i + 1, Len(s)), sep)

\* part[1:-1]: the last character dropped as well
DropFirst_and_last(s) == SubSeq(s, 2, Len(s) - 1)

\* part[1:], the slice that drops the first character whatever it is
DropFirst(s) == SubSeq(s, 2, Len(s))

\* [int(n) for n in part]: raises ValueError unless every character is a digit
IntList(s) ==
    IF \A i \in 1 .. Len(s) : IsDigit(s[i])
    THEN [ok |-> TRUE, val |-> [i \in 1 .. Len(s) |-> DigitVal(s[i])]]
    ELSE [ok |-> FALSE, val |-> <<>>]

\* the value of a run of digits read as a decimal integer
RECURSIVE DecimalVal(_)
DecimalVal(s) ==
    IF s = <<>> THEN 0
    ELSE 10 * DecimalVal(SubSeq(s, 1, Len(s) - 1)) + DigitVal(s[Len(s)])

\* the first three fractional digits, in thousandths
FracVal(s) ==
    LET d(i) == IF i <= Len(s) THEN DigitVal(s[i]) ELSE 0
    IN  100 * d(1) + 10 * d(2) + d(3)

\* float(s) for the texts over the model's alphabet: an optional sign, digits
\* with at most one point, at least one digit; the value in thousandths
ParseFloat(s) ==
    LET signed == s # <<>> /\ s[1] \in {"+", "-"}
        body   == IF signed THEN Tail(s) ELSE s
        parts  == split(body, ".")
        ip     == parts[1]
        fp     == IF Len(parts) = 2 THEN parts[2] ELSE <<>>
        good   == /\ Len(parts) <= 2
                  /\ \A i \in 1 .. Len(ip) : IsDigit(ip[i])
                  /\ \A i \in 1 .. Len(fp) : IsDigit(fp[i])
                  /\ Len(ip) + Len(fp) >= 1
        mag    == MILLI * DecimalVal(ip) + FracVal(fp)
    IN  IF good
        THEN [ok |-> TRUE, val |-> IF signed /\ s[1] = "-" THEN 0 - mag ELSE mag]
        ELSE [ok |-> FALSE, val |-> 0]

\* parse_dna: ok is FALSE where the Python raises ValueError
parse_dna(dna_string) ==
    LET halves == split(dna_string, "/")
        fail   == [ok |-> FALSE, birth |-> <<>>, survive |-> <<>>, mutation |-> 0]
    IN  IF Len(halves) # 2 THEN fail
        ELSE LET b_part == halves[1]
                 rests  == split(halves[2], "|")
             IN  IF Len(rests) # 2 THEN fail
                 ELSE LET s_part == rests[1]
                          m_part == rests[2]
                          b == IntList(DropFirst(b_part))
                          s == IntList(DropFirst(s_part))
                          m == ParseFloat(DropFirst(m_part))
                      IN  IF b.ok /\ s.ok /\ m.ok
                          THEN [ok |-> TRUE, birth |-> b.val,
                                survive |-> s.val, mutation |-> m.val]
                          ELSE fail

\* dna_input_gui: the line typed, or the current DNA when it is empty
dna_input_gui(user_input, dna) == IF user_input # <<>> THEN user_input ELSE dna


(***************************************************************************)
(* Grids.  A grid is indexed grid[y][x], as in the source.                 *)
(***************************************************************************)
\* np.zeros((GRID_SIZE, GRID_SIZE))
ZeroGrid == [y \in Cells |-> [x \in Cells |-> 0]]

\* randomize_grid, lines 33-35, given the random.random() draw of each cell
randomize_grid(draws) ==
    [y \in Cells |-> [x \in Cells |-> IF draws[y][x] < ALIVE_PROB THEN 1 ELSE 0]]

\* generate_nutrient_map: each cell takes its own random.random() draw
generate_nutrient_map(draws) == [y \in Cells |-> [x \in Cells |-> draws[y][x]]]

\* math.sin on [0, pi], in thousandths (Bhaskara's rational approximation)
SinHalf(t) == (16 * MILLI * t * (PI100 - t)) \div (5 * PI100 * PI100 - 4 * t * (PI100 - t))

\* math.sin of a non-negative angle in hundredths of a radian, in thousandths
Sin(a) ==
    LET r == a % (2 * PI100)
    IN  IF r <= PI100 THEN SinHalf(r) ELSE 0 - SinHalf(r - PI100)

\* Wave with the sine at full amplitude: 0.5 + math.sin(...)
Wave_full(phase, x, y) == (MILLI \div 2) + Sin(phase + x * SPACE_STEP + y * SPACE_STEP)

\* line 48: wave = 0.5 + 0.5 * math.sin(wave_phase + x * 0.1 + y * 0.1)
Wave(phase, x, y) == (MILLI \div 2) + (Sin(phase + x * SPACE_STEP + y * SPACE_STEP) \div 2)

\* line 50: max(0.0, min(1.0, 0.7 * base + 0.3 * wave))
Blend(base, wave) == Max(0, Min(MILLI, (7 * base + 3 * wave) \div 10))

\* animate_nutrients with the wave computed before the phase is advanced
animate_nutrients_stale(field, phase) ==
    [wave_phase   |-> phase + PHASE_STEP,
     nutrient_map |-> [y \in Cells |-> [x \in Cells |->
                          Blend(field[y][x], Wave(phase, x, y))]]]

\* animate_nutrients: the phase is advanced first (line 45) and the loop
\* (lines 46-50) reads the advanced value
animate_nutrients(field, phase) ==
    LET advanced == phase + PHASE_STEP
    IN  [wave_phase   |-> advanced,
         nutrient_map |-> [y \in Cells |-> [x \in Cells |->
                              Blend(field[y][x], Wave(advanced, x, y))]]]

(***************************************************************************)
(* mutate_rule (src/1.py:52-63).                                           *)
(***************************************************************************)
\* sorted(rules): the elements of a finite set of integers in increasing order
RECURSIVE Sorted(_)
Sorted(S) ==
    IF S = {} THEN <<>>
    ELSE LET m == CHOOSE a \in S : \A b \in S : a <= b
         IN  <<m>> \o Sorted(S \ {m})

\* set(ruleset)
SetOf(seq) == {seq[i] : i \in 1 .. Len(seq)}

\* maybe_flip with the test of the draw turned round
maybe_flip_inverted(ruleset, mutation_rate, r, op, val) ==
    LET rules == SetOf(ruleset)
    IN  IF r >= mutation_rate
        THEN IF op = "add" THEN Sorted(rules \cup {val})
             ELSE IF op = "remove" /\ val \in rules THEN Sorted(rules \ {val})
             ELSE Sorted(rules)
        ELSE Sorted(rules)

\* maybe_flip, given its draws: r = random.random(), op = random.choice,
\* val = random.randint(0, 8)
maybe_flip(ruleset, mutation_rate, r, op, val) ==
    LET rules == SetOf(ruleset)
    IN  IF r < mutation_rate
        THEN IF op = "add" THEN Sorted(rules \cup {val})
             ELSE IF op = "remove" /\ val \in rules THEN Sorted(rules \ {val})
             ELSE Sorted(rules)
        ELSE Sorted(rules)

(***************************************************************************)
(* count_neighbors and update_grid (src/1.py:65-97).                       *)
(***************************************************************************)
\* the (dx, dy) visited by the two loops of count_neighbors, (0, 0) skipped
OFFSETS == << <<-1, -1>>, <<0, -1>>, <<1, -1>>,
              <<-1,  0>>,            <<1,  0>>,
              <<-1,  1>>, <<0,  1>>, <<1,  1>> >>

\* NeighborSum without the wraparound: cells beyond an edge count as dead
RECURSIVE NeighborSum_edges(_, _, _, _)
NeighborSum_edges(g, x, y, k) ==
    IF k = 0 THEN 0
    ELSE LET nx == x + OFFSETS[k][1]
             ny == y + OFFSETS[k][2]
         IN  NeighborSum_edges(g, x, y, k - 1)
               + (IF nx \in Cells /\ ny \in Cells THEN g[ny][nx] ELSE 0)

RECURSIVE NeighborSum(_, _, _, _)
NeighborSum(g, x, y, k) ==
    IF k = 0 THEN 0
    ELSE LET nx == (x + OFFSETS[k][1]) % GRID_SIZE
             ny == (y + OFFSETS[k][2]) % GRID_SIZE
         IN  NeighborSum(g, x, y, k - 1) + g[ny][nx]

\* count_neighbors without the skip of (0, 0): the cell counts itself
count_neighbors_self(g, x, y) == NeighborSum(g, x, y, Len(OFFSETS)) + g[y][x]

count_neighbors(g, x, y) == NeighborSum(g, x, y, Len(OFFSETS))

\* NewCell with birth on either condition instead of both
NewCell_or(g, nutrients, b_m, s_m, x, y) ==
    LET neighbors      == count_neighbors(g, x, y)
        nutrient_bonus == nutrients[y][x]
    IN  IF g[y][x] = 1
        THEN IF neighbors \in SetOf(s_m) \/ nutrient_bonus > SURVIVE_NUTRIENT
             THEN 1 ELSE 0
        ELSE IF neighbors \in SetOf(b_m) \/ nutrient_bonus > BIRTH_NUTRIENT
             THEN 1 ELSE 0

\* lines 82-90: the new value of cell (x, y)
NewCell(g, nutrients, b_m, s_m, x, y) ==
    LET neighbors      == count_neighbors(g, x, y)
        nutrient_bonus == nutrients[y][x]
    IN  IF g[y][x] = 1
        THEN IF neighbors \in SetOf(s_m) \/ nutrient_bonus > SURVIVE_NUTRIENT
             THEN 1 ELSE 0
        ELSE IF neighbors \in SetOf(b_m) /\ nutrient_bonus > BIRTH_NUTRIENT
             THEN 1 ELSE 0

\* NewHistory without the cap
NewHistory_uncapped(h, cell) ==
    IF cell = 1 THEN h + 1 ELSE Max(h - 1, 0)

\* lines 92-95: the history of a cell, from its new value
NewHistory(h, cell) ==
    IF cell = 1 THEN Min(h + 1, HISTORY_MAX) ELSE Max(h - 1, 0)

\* CellPass with a live cell kept alive while its history is above 0
CellPass_afterglow(g, nutrients, hist, b_m, s_m) ==
    LET cells == [y \in Cells |-> [x \in Cells |->
                     IF g[y][x] = 1 /\ hist[y][x] > 0 THEN 1
                     ELSE NewCell(g, nutrients, b_m, s_m, x, y)]]
    IN  [new_grid    |-> cells,
         history_map |-> [y \in Cells |-> [x \in Cells |->
                             NewHistory(hist[y][x], cells[y][x])]]]

\* lines 80-95: the two loops over the cells, with all they can read: the
\* grid, the nutrient field, the history and the mutated sets
CellPass(g, nutrients, hist, b_m, s_m) ==
    LET cells == [y \in Cells |-> [x \in Cells |->
                     NewCell(g, nutrients, b_m, s_m, x, y)]]
    IN  [new_grid    |-> cells,
         history_map |-> [y \in Cells |-> [x \in Cells |->
                             NewHistory(hist[y][x], cells[y][x])]]]

(***************************************************************************)
(* Inputs: the lines typed at the DNA prompt and the random draws.         *)
(***************************************************************************)
\* "B3/S23|M0": Conway's rule, never mutated
TEXT_CONWAY == <<"B", "3", "/", "S", "2", "3", "|", "M", "0">>
\* "B36/S23|M1.0": mutated at every tick
TEXT_ALWAYS == <<"B", "3", "6", "/", "S", "2", "3", "|", "M", "1", ".", "0">>
\* "B9/S23|M-0.5": a digit that is no neighbour count, a negative rate
TEXT_NINE == <<"B", "9", "/", "S", "2", "3", "|", "M", "-", "0", ".", "5">>
\* "x3/y23|z0": other letters where B, S and M stand
TEXT_LETTERS == <<"x", "3", "/", "y", "2", "3", "|", "z", "0">>
\* "B3S23M0.01": no separators
TEXT_NOSEP == <<"B", "3", "S", "2", "3", "M", "0", ".", "0", "1">>
\* "Bx/S23|M0.01": a birth token that is no digit
TEXT_NODIGIT == <<"B", "x", "/", "S", "2", "3", "|", "M", "0", ".", "0", "1">>
\* "B3/S23|Mx": a mutation term that is no number
TEXT_NOFLOAT == <<"B", "3", "/", "S", "2", "3", "|", "M", "x">>

\* what the user may type at "DNA> "; <<>> is the empty line
UserInputs ==
    {<<>>, TEXT_CONWAY, TEXT_ALWAYS, TEXT_NINE, TEXT_LETTERS,
     TEXT_NOSEP, TEXT_NODIGIT, TEXT_NOFLOAT}

\* live cells (x, y) of the patterns the random grid draws produce
BLOCK == {<<0, 0>>, <<1, 0>>, <<0, 1>>, <<1, 1>>}
BLINKER_H == {<<0, 1>>, <<1, 1>>, <<2, 1>>}
BLINKER_V == {<<1, 0>>, <<1, 1>>, <<1, 2>>}
SINGLE == {<<0, 0>>}

\* the random.random() draws of randomize_grid that produce a pattern: the
\* largest draw below 0.2 on its cells, 0.2 itself elsewhere
DrawsOf(pattern) ==
    [y \in Cells |-> [x \in Cells |->
        IF <<x, y>> \in pattern THEN ALIVE_PROB - 1 ELSE ALIVE_PROB]]

GridOf(pattern) ==
    [y \in Cells |-> [x \in Cells |-> IF <<x, y>> \in pattern THEN 1 ELSE 0]]

GridDraws == {DrawsOf(BLOCK), DrawsOf(BLINKER_H), DrawsOf(SINGLE)}

\* the random.random() draws of generate_nutrient_map: the same draw in
\* every cell, the least, the middle and the largest value of [0, 1)
NutrientDraws == {[y \in Cells |-> [x \in Cells |-> v]] : v \in {0, 500, 999}}

\* the random.random() draws compared with the mutation rate
RateDraws == {0, 500, 999}

\* the random.randint(0, 8) draws: both ends, and the neighbour counts
\* that the rules of UserInputs name
ValueDraws == {0, 2, 3, MAX_NEIGHBORS}

\* the results maybe_flip returns for a rule set over these draws
FlipOutcomes(ruleset, mutation_rate) ==
    {maybe_flip(ruleset, mutation_rate, r, op, val) :
        r \in RateDraws, op \in {"add", "remove"}, val \in ValueDraws}

(***************************************************************************)
(* State.                                                                  *)
(***************************************************************************)
VARIABLES
    pc,            \* where main is: "launch", "loop", "key_r", "key_d",
                   \* "animate", "update", "cells", "commit", "closed", "crashed"
    DNA,           \* the global DNA, the text drawn on screen
    birth,         \* main's birth, survive and mutation
    survive,
    mutation,
    paused,        \* main's paused
    grid,          \* the globals grid, nutrient_map, history_map, wave_phase
    nutrient_map,
    history_map,
    wave_phase,
    b_mut,         \* update_grid's locals b_mut, s_mut and new_grid
    s_mut,
    new_grid,
    alive_run,     \* observer: per cell, the ticks in a row whose new grid
                   \* had the cell alive, since the last randomize_grid
    twin           \* a second run of the program fed the same keys, texts
                   \* and draws: its grid, nutrient_map, history_map,
                   \* wave_phase and new_grid

vars == <<pc, DNA, birth, survive, mutation, paused, grid, nutrient_map,
          history_map, wave_phase, b_mut, s_mut, new_grid, alive_run, twin>>

rule == <<birth, survive, mutation>>
locals == <<b_mut, s_mut, new_grid>>
fields == <<grid, nutrient_map, history_map, alive_run, twin>>

\* the globals of a second run
Globals(g, nutrients, hist, phase) ==
    [grid |-> g, nutrient_map |-> nutrients, history_map |-> hist,
     wave_phase |-> phase, new_grid |-> ZeroGrid]

\* the module's globals (lines 15-22) and main not yet started
Init ==
    /\ pc = "launch"
    /\ DNA = DEFAULT_DNA
    /\ birth = <<>> /\ survive = <<>> /\ mutation = 0
    /\ paused = FALSE
    /\ grid = ZeroGrid
    /\ nutrient_map = ZeroGrid
    /\ history_map = ZeroGrid
    /\ wave_phase = 0
    /\ b_mut = <<>> /\ s_mut = <<>> /\ new_grid = ZeroGrid
    /\ alive_run = ZeroGrid
    /\ twin = Globals(grid, nutrient_map, history_map, wave_phase)

(***************************************************************************)
(* Steps of main (src/1.py:124-157).                                       *)
(***************************************************************************)
\* Reseed with the history left as it is
Reseed_keephistory(gd, nd) ==
    /\ grid' = randomize_grid(gd)
    /\ history_map' = history_map
    /\ nutrient_map' = generate_nutrient_map(nd)
    /\ alive_run' = ZeroGrid
    /\ twin' = [twin EXCEPT !.grid = randomize_grid(gd),
                            !.nutrient_map = generate_nutrient_map(nd)]

\* randomize_grid() then generate_nutrient_map(), lines 131-132 and 140-141
Reseed(gd, nd) ==
    /\ grid' = randomize_grid(gd)
    /\ history_map' = ZeroGrid
    /\ nutrient_map' = generate_nutrient_map(nd)
    /\ alive_run' = ZeroGrid
    /\ twin' = [twin EXCEPT !.grid = randomize_grid(gd),
                            !.history_map = ZeroGrid,
                            !.nutrient_map = generate_nutrient_map(nd)]

\* LoadDna with the text assigned to a local DNA, the global left as it is
LoadDna_local(user_input, next_pc) ==
    LET text   == dna_input_gui(user_input, DNA)
        parsed == parse_dna(text)
    IN  /\ DNA' = DNA
        /\ IF parsed.ok
           THEN /\ birth' = parsed.birth
                /\ survive' = parsed.survive
                /\ mutation' = parsed.mutation
                /\ pc' = next_pc
           ELSE /\ UNCHANGED rule
                /\ pc' = "crashed"

\* DNA = dna_input_gui(); birth, survive, mutation = parse_dna(DNA):
\* DNA is assigned before parse_dna runs; a ValueError ends the program
LoadDna(user_input, next_pc) ==
    LET text   == dna_input_gui(user_input, DNA)
        parsed == parse_dna(text)
    IN  /\ DNA' = text
        /\ IF parsed.ok
           THEN /\ birth' = parsed.birth
                /\ survive' = parsed.survive
                /\ mutation' = parsed.mutation
                /\ pc' = next_pc
           ELSE /\ UNCHANGED rule
                /\ pc' = "crashed"

\* lines 125-134: the prompt at launch, then the first grids
Launch(inputs, gridDraws, nutrientDraws) ==
    /\ pc = "launch"
    /\ \E user_input \in inputs :
          /\ LoadDna(user_input, "loop")
          /\ IF parse_dna(dna_input_gui(user_input, DNA)).ok
             THEN \E gd \in gridDraws, nd \in nutrientDraws : Reseed(gd, nd)
             ELSE UNCHANGED fields
    /\ UNCHANGED <<paused, wave_phase, locals>>

\* line 136: the window is closed; line 157
CloseWindow ==
    /\ pc = "loop"
    /\ pc' = "closed"
    /\ UNCHANGED <<DNA, rule, paused, fields, wave_phase, locals>>

\* lines 136-138: the loop goes on and KEY_SPACE is polled
PollSpace(phases, presses) ==
    /\ pc = "loop"
    /\ wave_phase \in phases
    /\ \E pressed \in presses : paused' = IF pressed THEN ~paused ELSE paused
    /\ pc' = "key_r"
    /\ UNCHANGED <<DNA, rule, fields, wave_phase, locals>>

\* PollReset with the phase restarted along with the grids
PollReset_phase(presses, gridDraws, nutrientDraws) ==
    /\ pc = "key_r"
    /\ \E pressed \in presses :
          IF pressed
          THEN /\ \E gd \in gridDraws, nd \in nutrientDraws : Reseed(gd, nd)
               /\ wave_phase' = 0
          ELSE UNCHANGED <<fields, wave_phase>>
    /\ pc' = "key_d"
    /\ UNCHANGED <<DNA, rule, paused, locals>>

\* lines 139-141: KEY_R
PollReset(presses, gridDraws, nutrientDraws) ==
    /\ pc = "key_r"
    /\ \E pressed \in presses :
          IF pressed
          THEN \E gd \in gridDraws, nd \in nutrientDraws : Reseed(gd, nd)
          ELSE UNCHANGED fields
    /\ pc' = "key_d"
    /\ UNCHANGED <<DNA, rule, paused, wave_phase, locals>>

\* lines 142-144: KEY_D
PollDna(presses, inputs) ==
    /\ pc = "key_d"
    /\ \E pressed \in presses :
          IF pressed
          THEN \E user_input \in inputs : LoadDna(user_input, "animate")
          ELSE /\ pc' = "animate"
               /\ UNCHANGED <<DNA, rule>>
    /\ UNCHANGED <<paused, fields, wave_phase, locals>>

\* line 146: animate_nutrients(), whatever paused is; line 148
Animate ==
    /\ pc = "animate"
    /\ LET a == animate_nutrients(nutrient_map, wave_phase)
       IN  /\ wave_phase' = a.wave_phase
           /\ nutrient_map' = a.nutrient_map
    /\ LET a == animate_nutrients(twin.nutrient_map, twin.wave_phase)
       IN  twin' = [twin EXCEPT !.wave_phase = a.wave_phase,
                                !.nutrient_map = a.nutrient_map]
    /\ pc' = IF paused THEN "loop" ELSE "update"
    /\ UNCHANGED <<DNA, rule, paused, grid, history_map, alive_run, locals>>

\* MutateRule with the mutated sets written back to the stored rule
MutateRuleWriteBack ==
    /\ pc = "update"
    /\ new_grid' = ZeroGrid
    /\ b_mut' \in FlipOutcomes(birth, mutation)
    /\ s_mut' \in FlipOutcomes(survive, mutation)
    /\ birth' = b_mut' /\ survive' = s_mut'
    /\ pc' = "cells"
    /\ UNCHANGED <<DNA, mutation, paused, fields, wave_phase>>

\* update_grid, lines 77-78: new_grid of zeros, the rule mutated once
MutateRule ==
    /\ pc = "update"
    /\ new_grid' = ZeroGrid
    /\ b_mut' \in FlipOutcomes(birth, mutation)
    /\ s_mut' \in FlipOutcomes(survive, mutation)
    /\ pc' = "cells"
    /\ UNCHANGED <<DNA, rule, paused, fields, wave_phase>>

\* the grid after the first k cells, in loop order (rows y, then x), were
\* each computed from and written to the one grid g
RECURSIVE InPlaceSweep(_, _, _, _, _)
InPlaceSweep(g, nutrients, b_m, s_m, k) ==
    IF k = 0 THEN g
    ELSE LET done == InPlaceSweep(g, nutrients, b_m, s_m, k - 1)
             y    == (k - 1) \div GRID_SIZE
             x    == (k - 1) % GRID_SIZE
         IN  [done EXCEPT ![y][x] = NewCell(done, nutrients, b_m, s_m, x, y)]

\* ComputeCells with one buffer: each cell reads the cells already written
ComputeCells_inplace ==
    /\ pc = "cells"
    /\ new_grid' = InPlaceSweep(grid, nutrient_map, b_mut, s_mut, GRID_SIZE * GRID_SIZE)
    /\ history_map' = [y \in Cells |-> [x \in Cells |->
                          NewHistory(history_map[y][x], new_grid'[y][x])]]
    /\ LET swept == InPlaceSweep(twin.grid, twin.nutrient_map, b_mut, s_mut,
                                 GRID_SIZE * GRID_SIZE)
       IN  twin' = [twin EXCEPT !.new_grid = swept,
                                !.history_map = [y \in Cells |-> [x \in Cells |->
                                    NewHistory(twin.history_map[y][x], swept[y][x])]]]
    /\ alive_run' = [y \in Cells |-> [x \in Cells |->
                        IF new_grid'[y][x] = 1 THEN alive_run[y][x] + 1 ELSE 0]]
    /\ pc' = "commit"
    /\ UNCHANGED <<DNA, rule, paused, grid, nutrient_map, wave_phase, b_mut, s_mut>>

\* ComputeCells with the history taken from the cell's state before the tick
ComputeCells_oldstate ==
    /\ pc = "cells"
    /\ new_grid' = [y \in Cells |-> [x \in Cells |->
                       NewCell(grid, nutrient_map, b_mut, s_mut, x, y)]]
    /\ history_map' = [y \in Cells |-> [x \in Cells |->
                          NewHistory(history_map[y][x], grid[y][x])]]
    /\ twin' = [twin EXCEPT
                   !.new_grid = [y \in Cells |-> [x \in Cells |->
                       NewCell(twin.grid, twin.nutrient_map, b_mut, s_mut, x, y)]],
                   !.history_map = [y \in Cells |-> [x \in Cells |->
                       NewHistory(twin.history_map[y][x], twin.grid[y][x])]]]
    /\ alive_run' = [y \in Cells |-> [x \in Cells |->
                        IF new_grid'[y][x] = 1 THEN alive_run[y][x] + 1 ELSE 0]]
    /\ pc' = "commit"
    /\ UNCHANGED <<DNA, rule, paused, grid, nutrient_map, wave_phase, b_mut, s_mut>>

\* update_grid, lines 80-95: every cell of new_grid, and its history
ComputeCells ==
    /\ pc = "cells"
    /\ LET pass == CellPass(grid, nutrient_map, history_map, b_mut, s_mut)
       IN  /\ new_grid' = pass.new_grid
           /\ history_map' = pass.history_map
    /\ LET pass == CellPass(twin.grid, twin.nutrient_map, twin.history_map, b_mut, s_mut)
       IN  twin' = [twin EXCEPT !.new_grid = pass.new_grid,
                                !.history_map = pass.history_map]
    /\ alive_run' = [y \in Cells |-> [x \in Cells |->
                        IF new_grid'[y][x] = 1 THEN alive_run[y][x] + 1 ELSE 0]]
    /\ pc' = "commit"
    /\ UNCHANGED <<DNA, rule, paused, grid, nutrient_map, wave_phase, b_mut, s_mut>>

\* update_grid, line 97: grid = new_grid; the locals end with the call.
\* Lines 151-155 draw the frame and change nothing.
Commit ==
    /\ pc = "commit"
    /\ grid' = new_grid
    /\ b_mut' = <<>> /\ s_mut' = <<>> /\ new_grid' = ZeroGrid
    /\ twin' = [twin EXCEPT !.grid = twin.new_grid, !.new_grid = ZeroGrid]
    /\ pc' = "loop"
    /\ UNCHANGED <<DNA, rule, paused, nutrient_map, history_map, alive_run, wave_phase>>

\* the phases at which a run of n frames, begun after k ticks, polls the keys
PhasesFrom(k, n) == {(k + i) * PHASE_STEP : i \in 0 .. (n - 1)}

Next ==
    \/ Launch(UserInputs, GridDraws, NutrientDraws)
    \/ CloseWindow
    \/ PollSpace(PhasesFrom(0, MaxTicks), BOOLEAN)
    \/ PollReset(BOOLEAN, GridDraws, NutrientDraws)
    \/ PollDna(BOOLEAN, UserInputs)
    \/ Animate
    \/ MutateRule
    \/ ComputeCells
    \/ Commit

Spec == Init /\ [][Next]_vars

(***************************************************************************)
(* SpecMid: the program taken up in a later frame, right after KEY_R was   *)
(* handled (lines 139-141): the grids are fresh draws, the history is      *)
(* zero, and what KEY_R leaves alone (the rule, paused, the phase) is what *)
(* earlier frames made it.                                                 *)
(***************************************************************************)
\* the texts of UserInputs that parse_dna accepts, and the default
LoadedTexts == {t \in UserInputs \cup {DEFAULT_DNA} : t # <<>> /\ parse_dna(t).ok}

InitMid ==
    /\ pc = "key_d"
    /\ DNA \in LoadedTexts
    /\ birth = parse_dna(DNA).birth
    /\ survive = parse_dna(DNA).survive
    /\ mutation = parse_dna(DNA).mutation
    /\ paused \in BOOLEAN
    /\ \E gd \in GridDraws : grid = randomize_grid(gd)
    /\ \E nd \in NutrientDraws : nutrient_map = generate_nutrient_map(nd)
    /\ history_map = ZeroGrid
    /\ wave_phase \in {0, MidStart * PHASE_STEP}
    /\ b_mut = <<>> /\ s_mut = <<>> /\ new_grid = ZeroGrid
    /\ alive_run = ZeroGrid
    /\ twin = Globals(grid, nutrient_map, history_map, wave_phase)

NextMid ==
    \/ CloseWindow
    \/ PollSpace(PhasesFrom(0, MaxTicks) \cup PhasesFrom(MidStart, MaxTicks), BOOLEAN)
    \/ PollReset(BOOLEAN, GridDraws, NutrientDraws)
    \/ PollDna(BOOLEAN, UserInputs)
    \/ Animate
    \/ MutateRule
    \/ ComputeCells
    \/ Commit

SpecMid == InitMid /\ [][NextMid]_vars

(***************************************************************************)
(* SpecLife: two frames without a key pressed, under Conway's rule, taken  *)
(* up right after KEY_R was handled in the first frame, from every grid    *)
(* whose live cells lie in a window three cells wide.                      *)
(***************************************************************************)
WindowDraws == {DrawsOf(p) : p \in SUBSET ((0 .. 2) \X (0 .. (PatternRows - 1)))}

InitLife ==
    /\ pc = "key_d"
    /\ DNA = TEXT_CONWAY
    /\ birth = parse_dna(DNA).birth
    /\ survive = parse_dna(DNA).survive
    /\ mutation = parse_dna(DNA).mutation
    /\ paused = FALSE
    /\ \E gd \in WindowDraws : grid = randomize_grid(gd)
    /\ \E nd \in NutrientDraws : nutrient_map = generate_nutrient_map(nd)
    /\ history_map = ZeroGrid
    /\ wave_phase = 0
    /\ b_mut = <<>> /\ s_mut = <<>> /\ new_grid = ZeroGrid
    /\ alive_run = ZeroGrid
    /\ twin = Globals(grid, nutrient_map, history_map, wave_phase)

NextLife ==
    \/ CloseWindow
    \/ PollSpace(PhasesFrom(0, 2), {FALSE})
    \/ PollReset({FALSE}, {}, {})
    \/ PollDna({FALSE}, {})
    \/ Animate
    \/ MutateRule
    \/ ComputeCells
    \/ Commit

SpecLife == InitLife /\ [][NextLife]_vars

(***************************************************************************)
(* SpecParse: the prompt at launch, typed with every text                  *)
(* B<digits>/S<digits>|M<float> of at most MaxDigits digits per run.       *)
(***************************************************************************)
\* the runs of at most n of the digits 0, 3 and 9
RECURSIVE DigitRuns(_)
DigitRuns(n) ==
    IF n = 0 THEN {<<>>}
    ELSE DigitRuns(n - 1) \cup
         {Append(r, d) : r \in {q \in DigitRuns(n - 1) : Len(q) = n - 1},
                         d \in {"0", "3", "9"}}

\* mutation terms: "0", "0.01", "1.0", ".5", "1.", "2.5", "0.125"
FloatTexts ==
    {<<"0">>, <<"0", ".", "0", "1">>, <<"1", ".", "0">>, <<".", "5">>,
     <<"1", ".">>, <<"2", ".", "5">>, <<"0", ".", "1", "2", "5">>}

ParseInputs ==
    {<<>>} \cup
    {<<"B">> \o b \o <<"/", "S">> \o sv \o <<"|", "M">> \o m :
        b \in DigitRuns(MaxDigits), sv \in DigitRuns(MaxDigits), m \in FloatTexts}

NextParse ==
    \/ Launch(ParseInputs, {DrawsOf(SINGLE)}, NutrientDraws)
    \/ CloseWindow

SpecParse == Init /\ [][NextParse]_vars

(***************************************************************************)
(* SpecTwin: two runs side by side from the second frame on.  Both were    *)
(* launched with the same text, the block and the same nutrient draws.     *)
(* The first sat out the first frame paused (SPACE in the first frame and  *)
(* again in the second), so its history is still 0; the second ticked in   *)
(* the first frame with mutation draws that left the block as it is, so    *)
(* its history is 1 on the block.  From here on both get the same keys,    *)
(* texts and draws.                                                        *)
(***************************************************************************)
InitTwin ==
    /\ pc = "key_r"
    /\ DNA \in LoadedTexts
    /\ birth = parse_dna(DNA).birth
    /\ survive = parse_dna(DNA).survive
    /\ mutation = parse_dna(DNA).mutation
    /\ paused = FALSE
    /\ grid = GridOf(BLOCK)
    /\ \E nd \in NutrientDraws :
          nutrient_map = animate_nutrients(generate_nutrient_map(nd), 0).nutrient_map
    /\ history_map = ZeroGrid
    /\ wave_phase = PHASE_STEP
    /\ b_mut = <<>> /\ s_mut = <<>> /\ new_grid = ZeroGrid
    /\ alive_run = ZeroGrid
    /\ twin = Globals(grid, nutrient_map, GridOf(BLOCK), wave_phase)

NextTwin ==
    \/ CloseWindow
    \/ PollSpace(PhasesFrom(1, MaxTicks), BOOLEAN)
    \/ PollReset(BOOLEAN, GridDraws, NutrientDraws)
    \/ PollDna(BOOLEAN, UserInputs)
    \/ Animate
    \/ MutateRule
    \/ ComputeCells
    \/ Commit

SpecTwin == InitTwin /\ [][NextTwin]_vars

(***************************************************************************)
(* SpecLong: a long run under Conway's rule without mutation; no key but R *)
(* is pressed, and R only in every ResetEvery-th frame.                    *)
(***************************************************************************)
LongResetPresses ==
    IF wave_phase % (ResetEvery * PHASE_STEP) = 0 THEN BOOLEAN ELSE {FALSE}

NextLong ==
    \/ Launch({TEXT_CONWAY}, GridDraws, NutrientDraws)
    \/ CloseWindow
    \/ PollSpace(PhasesFrom(0, LongTicks), {FALSE})
    \/ PollReset(LongResetPresses, GridDraws, NutrientDraws)
    \/ PollDna({FALSE}, {})
    \/ Animate
    \/ MutateRule
    \/ ComputeCells
    \/ Commit

SpecLong == Init /\ [][NextLong]_vars

(***************************************************************************)
(* Claims.                                                                 *)
(***************************************************************************)
\* the program is in its main loop, or has left it by closing the window
Running == pc \notin {"launch", "crashed"}

\* C1: a DNA edit whose text fails to parse leaves the active rule as it
\* was: birth, survive, mutation and the DNA text shown are unchanged.
C1_FailedLoadKeepsRule ==
    [][(pc = "key_d" /\ ~parse_dna(DNA').ok) => (DNA' = DNA /\ rule' = rule)]_vars

\* C2: a DNA edit whose text fails to parse is not fatal: the program goes
\* on to the rest of the frame, and no grid was changed by the failed edit.
C2_FailedLoadNonFatal ==
    [][(pc = "key_d" /\ ~parse_dna(DNA').ok)
          => (pc' = "animate" /\ UNCHANGED <<grid, nutrient_map, history_map>>)]_vars

\* the grammar B<digits>/S<digits>|M<float>, <float> a non-negative decimal
IsDigits(t, from, to) == \A i \in from .. to : IsDigit(t[i])
IsDecimal(t, from, to) ==
    /\ \A i \in from .. to : IsDigit(t[i]) \/ t[i] = "."
    /\ Cardinality({i \in from .. to : t[i] = "."}) <= 1
    /\ \E i \in from .. to : IsDigit(t[i])
MatchesGrammar(t) ==
    \E i \in 2 .. Len(t), j \in 4 .. Len(t) :
        /\ i + 1 < j /\ j < Len(t)
        /\ t[1] = "B" /\ IsDigits(t, 2, i - 1)
        /\ t[i] = "/" /\ t[i + 1] = "S" /\ IsDigits(t, i + 2, j - 1)
        /\ t[j] = "|" /\ t[j + 1] = "M" /\ IsDecimal(t, j + 2, Len(t))

\* C3: every text that does not match the grammar fails to parse, so the
\* text of a loaded rule always matches the grammar.
C3_LoadedTextMatchesGrammar == Running => MatchesGrammar(DNA)

\* C4: the stored birth and survive sets, and the mutated sets of a tick,
\* hold only neighbour counts 0..8.
C4_RuleValuesInRange ==
    \A r \in {birth, survive, b_mut, s_mut} :
        \A i \in 1 .. Len(r) : r[i] \in 0 .. MAX_NEIGHBORS

\* a set that differs from the set of ruleset by at most one value of 0..8
OneFlipOf(result, ruleset) ==
    \/ SetOf(result) = SetOf(ruleset)
    \/ \E v \in 0 .. MAX_NEIGHBORS :
          \/ SetOf(result) = SetOf(ruleset) \cup {v}
          \/ SetOf(result) = SetOf(ruleset) \ {v}

\* C5: no step of a tick (animate, mutate, compute, commit) changes the
\* stored birth, survive, mutation or DNA text, and the mutated sets of a
\* tick are each one flip away from the stored sets.
C5_StepKeepsStoredRule ==
    [][/\ pc \in {"animate", "update", "cells", "commit"}
            => (DNA' = DNA /\ rule' = rule)
       /\ pc = "update"
            => (OneFlipOf(b_mut', birth) /\ OneFlipOf(s_mut', survive))]_vars

\* C5 witness: in a second or later tick at mutation rate 1.0, both mutated
\* sets differ from the stored sets, which are those of the DNA text.
C5_Witness ==
    /\ pc = "cells"
    /\ wave_phase >= 2 * PHASE_STEP
    /\ mutation = MILLI
    /\ DNA = TEXT_ALWAYS /\ birth = <<3, 6>> /\ survive = <<2, 3>>
    /\ SetOf(b_mut) # SetOf(birth)
    /\ SetOf(s_mut) # SetOf(survive)

(***************************************************************************)
(* Conway's Game of Life on the torus, stated over sets of cells.          *)
(***************************************************************************)
\* a and b are equal or adjacent on the ring of GRID_SIZE positions
RingNear(a, b) == \E d \in {-1, 0, 1} : (a + d) % GRID_SIZE = b

\* the live cells among the eight cells around (x, y), (x, y) left out
LiveAround(g, x, y) ==
    Cardinality({c \in Cells \X Cells :
        /\ c # <<x, y>>
        /\ RingNear(x, c[1]) /\ RingNear(y, c[2])
        /\ g[c[2]][c[1]] = 1})

LifeSuccessor(g) ==
    [y \in Cells |-> [x \in Cells |->
        IF g[y][x] = 1
        THEN IF LiveAround(g, x, y) \in {2, 3} THEN 1 ELSE 0
        ELSE IF LiveAround(g, x, y) = 3 THEN 1 ELSE 0]]

\* no nutrient value passes either threshold's override
Inert(field) ==
    \A y \in Cells : \A x \in Cells :
        field[y][x] > BIRTH_NUTRIENT /\ field[y][x] <= SURVIVE_NUTRIENT

ConwayRule == mutation = 0 /\ birth = <<3>> /\ survive = <<2, 3>>

\* C6: with mutation rate 0, birth {3}, survive {2,3} and inert nutrients
\* the new grid of a tick is the Life successor of the grid; a block is
\* unchanged, and the two phases of a blinker follow each other.
C6_ConwayEquivalence ==
    (pc = "commit" /\ ConwayRule /\ Inert(nutrient_map))
        => /\ new_grid = LifeSuccessor(grid)
           /\ grid = GridOf(BLOCK) => new_grid = GridOf(BLOCK)
           /\ grid = GridOf(BLINKER_H) => new_grid = GridOf(BLINKER_V)
           /\ grid = GridOf(BLINKER_V) => new_grid = GridOf(BLINKER_H)

\* C6 witness: the second tick of a blinker brings back its first phase,
\* which its first tick had left.
C6_Witness ==
    /\ pc = "commit" /\ ConwayRule /\ Inert(nutrient_map)
    /\ wave_phase = 2 * PHASE_STEP
    /\ grid = GridOf(BLINKER_V)
    /\ new_grid = GridOf(BLINKER_H)
    /\ new_grid # grid

\* the nutrient field animate_nutrients leaves when its wave is computed
\* at the given phase
FieldAt(field, phase) ==
    [y \in Cells |-> [x \in Cells |-> Blend(field[y][x], Wave(phase, x, y))]]

\* C7 as stated: Animate computes the wave from the phase held before the
\* increment, and advances the phase by 0.05 afterwards.
C7_AnimateReadsPhaseBeforeIncrement ==
    [][pc = "animate"
          => /\ nutrient_map' = FieldAt(nutrient_map, wave_phase)
             /\ wave_phase' = wave_phase + PHASE_STEP]_vars

\* C7 amended: Animate first advances the phase by 0.05 and computes the
\* wave from the advanced phase; nothing else changes the phase, so the
\* k-th Animate uses phase k * 0.05.
C7_AnimateReadsAdvancedPhase ==
    [][/\ pc = "animate"
            => /\ wave_phase' = wave_phase + PHASE_STEP
               /\ nutrient_map' = FieldAt(nutrient_map, wave_phase')
       /\ pc # "animate" => wave_phase' = wave_phase]_vars

\* C7 witness: after the first Animate of a run the phase is 0.05 and the
\* field drawn as zeros holds the wave of phase 0.05, not that of phase 0.
C7_Witness ==
    /\ pc = "update"
    /\ wave_phase = PHASE_STEP
    /\ nutrient_map = FieldAt(ZeroGrid, PHASE_STEP)
    /\ nutrient_map # FieldAt(ZeroGrid, 0)

C9_ResetKeepsRuleAndPhase ==
    [][/\ pc = "key_r" => (rule' = rule /\ DNA' = DNA /\ wave_phase' = wave_phase)
       /\ wave_phase' >= wave_phase
       /\ wave_phase > 0 => wave_phase' > 0]_vars

\* C9 witness: KEY_R has just been handled in a later frame: the nutrient
\* field is a fresh draw, the history is zero, and the phase has advanced.
C9_Witness ==
    /\ pc = "key_d"
    /\ wave_phase > 0
    /\ nutrient_map \in {generate_nutrient_map(nd) : nd \in NutrientDraws}
    /\ history_map = ZeroGrid
    /\ birth = <<3, 6>> /\ DNA = TEXT_ALWAYS

\* C10: in the new grid of a tick a cell that was alive is alive iff its
\* neighbour count is in the mutated survive set or its nutrient is above
\* 0.9; a cell that was dead is alive iff its neighbour count is in the
\* mutated birth set and its nutrient is above 0.1.
C10_CellRule ==
    pc = "commit" =>
        \A y \in Cells : \A x \in Cells :
            new_grid[y][x] = 1 <=>
                IF grid[y][x] = 1
                THEN \/ LiveAround(grid, x, y) \in SetOf(s_mut)
                     \/ nutrient_map[y][x] > 900
                ELSE /\ LiveAround(grid, x, y) \in SetOf(b_mut)
                     /\ nutrient_map[y][x] > 100

\* C10 witness: under mutated sets, a dead cell whose neighbour count is in
\* the mutated birth set stays dead at a nutrient of at most 0.1, and a
\* live cell whose count is in the mutated survive set stays alive.
C10_Witness ==
    /\ pc = "commit"
    /\ SetOf(b_mut) # SetOf(birth) /\ SetOf(s_mut) # SetOf(survive)
    /\ \E y \in Cells : \E x \in Cells :
          /\ grid[y][x] = 0 /\ new_grid[y][x] = 0
          /\ LiveAround(grid, x, y) \in SetOf(b_mut)
          /\ nutrient_map[y][x] <= 100
    /\ \E y \in Cells : \E x \in Cells :
          /\ grid[y][x] = 1 /\ new_grid[y][x] = 1
          /\ LiveAround(grid, x, y) \in SetOf(s_mut)

(***************************************************************************)
(* C11: neighbour counting.                                                *)
(***************************************************************************)
\* the eight cells the claim names around (0, 0)
AroundOrigin ==
    LET n == GRID_SIZE - 1
    IN  {<<n, n>>, <<n, 0>>, <<0, n>>, <<1, 1>>, <<1, 0>>, <<0, 1>>, <<n, 1>>, <<1, n>>}

\* C11: for every cell, count_neighbors is the number of live cells among
\* its eight neighbours on the torus, the cell itself left out; with a
\* single live cell at (0, 0) the count is 1 at exactly the eight cells
\* around (0, 0) and 0 at every other cell.
C11_ToroidalCount ==
    /\ \A y \in Cells : \A x \in Cells :
          count_neighbors(grid, x, y) = LiveAround(grid, x, y)
    /\ grid = GridOf(SINGLE) =>
          \A y \in Cells : \A x \in Cells :
              count_neighbors(grid, x, y) = IF <<x, y>> \in AroundOrigin THEN 1 ELSE 0

\* C11 witness: a tick computed from the single live cell at (0, 0): the
\* cell across the corner counts it, the cell itself and a far cell do not.
C11_Witness ==
    /\ pc = "commit"
    /\ grid = GridOf(SINGLE)
    /\ Cardinality(AroundOrigin) = 8
    /\ count_neighbors(grid, GRID_SIZE - 1, GRID_SIZE - 1) = 1
    /\ count_neighbors(grid, 0, 0) = 0
    /\ count_neighbors(grid, 2, 2) = 0
    /\ new_grid[0][0] = 0

(***************************************************************************)
(* C12: what a well-formed text parses to.                                 *)
(***************************************************************************)
\* where the separator sep stands in a text that holds it once
PlaceOf(t, sep) == CHOOSE i \in 1 .. Len(t) : t[i] = sep

RECURSIVE Pow10(_)
Pow10(n) == IF n = 0 THEN 1 ELSE 10 * Pow10(n - 1)

\* the decimal t[from .. to] in thousandths, digit by digit by its place
DecimalMilli(t, from, to) ==
    LET points == {i \in from .. to : t[i] = "."}
        p      == IF points = {} THEN to + 1 ELSE CHOOSE i \in points : TRUE
        RECURSIVE Sum(_)
        Sum(k) == IF k > to THEN 0
                  ELSE Sum(k + 1) +
                       (IF k < p THEN DigitVal(t[k]) * 1000 * Pow10(p - 1 - k)
                        ELSE IF k = p THEN 0
                        ELSE (DigitVal(t[k]) * 1000) \div Pow10(k - p))
    IN  Sum(from)

\* C12: a loaded text that matches the grammar gives the birth set of the
\* digits after B, the survive set of the digits after S and the mutation
\* rate of the decimal after M; "B3/S23|M0.01" gives {3}, {2,3} and 0.01.
C12_ParseYieldsDigits ==
    (Running /\ MatchesGrammar(DNA)) =>
        LET i == PlaceOf(DNA, "/")
            j == PlaceOf(DNA, "|")
        IN  /\ SetOf(birth) = {DigitVal(DNA[k]) : k \in 2 .. (i - 1)}
            /\ SetOf(survive) = {DigitVal(DNA[k]) : k \in (i + 2) .. (j - 1)}
            /\ mutation = DecimalMilli(DNA, j + 2, Len(DNA))
            /\ DNA = DEFAULT_DNA =>
                  (SetOf(birth) = {3} /\ SetOf(survive) = {2, 3} /\ mutation = 10)

\* C12 witness: the default text "B3/S23|M0.01" has been loaded.
C12_Witness ==
    /\ pc = "loop"
    /\ DNA = DEFAULT_DNA
    /\ birth = <<3>> /\ survive = <<2, 3>> /\ mutation = 10

(***************************************************************************)
(* C13: a paused frame.                                                    *)
(***************************************************************************)
\* C13: while the loop is paused no frame changes the grid, the nutrient
\* field, the history field or the phase: the nutrient animation runs only
\* in frames that also run update_grid.
C13_PausedFrameChangesNothing ==
    [][(pc = "animate" /\ paused) =>
          UNCHANGED <<grid, nutrient_map, history_map, wave_phase>>]_vars

(***************************************************************************)
(* C14: the two buffers of a tick.                                         *)
(***************************************************************************)
\* C14: from the draw of the mutated rule to the end of the tick the grid,
\* the animated nutrient field and the mutated sets stay as they are while
\* the cells are computed; every cell of the new grid follows from the
\* grid as it was before the tick, from that nutrient field and from those
\* sets; and the grid becomes the new grid only in the step after all
\* cells are computed.
C14_DoubleBuffered ==
    [][/\ pc = "update" => UNCHANGED <<grid, nutrient_map>>
       /\ pc = "cells" =>
             /\ UNCHANGED <<grid, nutrient_map, b_mut, s_mut>>
             /\ \A y \in Cells : \A x \in Cells :
                   new_grid'[y][x] =
                       IF \/ /\ grid[y][x] = 1
                             /\ \/ LiveAround(grid, x, y) \in SetOf(s_mut)
                                \/ nutrient_map[y][x] > SURVIVE_NUTRIENT
                          \/ /\ grid[y][x] = 0
                             /\ LiveAround(grid, x, y) \in SetOf(b_mut)
                             /\ nutrient_map[y][x] > BIRTH_NUTRIENT
                       THEN 1 ELSE 0
       /\ pc = "commit" => (grid' = new_grid /\ UNCHANGED nutrient_map)
       /\ grid' # grid => pc \in {"launch", "key_r", "commit"}]_vars

\* C14 witness: a tick whose new grid differs from the old one and from
\* what one buffer swept in loop order would hold.
C14_Witness ==
    /\ pc = "commit"
    /\ new_grid # grid
    /\ new_grid # InPlaceSweep(grid, nutrient_map, b_mut, s_mut, GRID_SIZE * GRID_SIZE)
    /\ SetOf(b_mut) # SetOf(birth)

(***************************************************************************)
(* C15: the history of a tick.                                             *)
(***************************************************************************)
\* C15: a tick gives every history cell, from its own previous value h and
\* the cell's value in the finished new grid, min(h+1, 255) if the cell is
\* alive there and max(h-1, 0) if it is dead; the grid before the tick and
\* the other cells play no part.
C15_HistoryFromNewState ==
    [][pc = "cells" =>
          \A y \in Cells : \A x \in Cells :
              LET h == history_map[y][x]
              IN  history_map'[y][x] =
                      IF new_grid'[y][x] = 1
                      THEN (IF h + 1 <= 255 THEN h + 1 ELSE 255)
                      ELSE (IF h - 1 >= 0 THEN h - 1 ELSE 0)]_vars

\* C15 witness: one tick in which a cell is born (history 1), a live cell
\* dies (history back to 0) and a cell alive before and after has history 2.
C15_Witness ==
    /\ pc = "commit"
    /\ \E y \in Cells : \E x \in Cells :
          grid[y][x] = 0 /\ new_grid[y][x] = 1 /\ history_map[y][x] = 1
    /\ \E y \in Cells : \E x \in Cells :
          grid[y][x] = 1 /\ new_grid[y][x] = 0 /\ history_map[y][x] = 0
    /\ \E y \in Cells : \E x \in Cells :
          grid[y][x] = 1 /\ new_grid[y][x] = 1 /\ history_map[y][x] = 2

(***************************************************************************)
(* C16: what mutate_rule returns.                                          *)
(***************************************************************************)
\* the values in one of the two sets and not in the other
Changed(result, ruleset) ==
    (SetOf(result) \ SetOf(ruleset)) \cup (SetOf(ruleset) \ SetOf(result))

\* C16: each set mutate_rule returned differs from the stored set in at
\* most one value, a value of 0..8 added or removed, whatever happened to
\* the other set; at mutation rate 0 both equal the stored sets.
C16_MutateAtMostOne ==
    pc \in {"cells", "commit"} =>
        /\ Cardinality(Changed(b_mut, birth)) <= 1
        /\ Cardinality(Changed(s_mut, survive)) <= 1
        /\ Changed(b_mut, birth) \cup Changed(s_mut, survive) \subseteq 0 .. 8
        /\ mutation = 0 => (Changed(b_mut, birth) = {} /\ Changed(s_mut, survive) = {})

\* C16 witness: under the default rule B3/S23 at rate 0.01, 8 was added to
\* the birth set while the survive set came back as it was.
C16_Witness ==
    /\ pc = "cells"
    /\ birth = <<3>> /\ survive = <<2, 3>> /\ mutation = 10
    /\ b_mut = <<3, 8>>
    /\ s_mut = <<2, 3>>

(***************************************************************************)
(* C18: the range of the nutrient field.                                   *)
(***************************************************************************)
\* C18: before and after every step every nutrient cell lies in [0, 1]; a
\* launch or KEY_R that redraws the field leaves every cell below 1; and
\* every animation writes 0.7*old + 0.3*wave clamped to [0, 1], with every
\* wave value in [0, 1].
C18_NutrientInUnitInterval ==
    [][/\ \A y \in Cells : \A x \in Cells :
             /\ nutrient_map[y][x] >= 0 /\ nutrient_map[y][x] <= 1000
             /\ nutrient_map'[y][x] >= 0 /\ nutrient_map'[y][x] <= 1000
       /\ (pc \in {"launch", "key_r"} /\ nutrient_map' # nutrient_map) =>
             \A y \in Cells : \A x \in Cells : nutrient_map'[y][x] < 1000
       /\ pc = "animate" =>
             \A y \in Cells : \A x \in Cells :
                 LET wave  == Wave(wave_phase', x, y)
                     blend == (7 * nutrient_map[y][x] + 3 * wave) \div 10
                 IN  /\ wave >= 0 /\ wave <= 1000
                     /\ nutrient_map'[y][x] =
                            IF blend < 0 THEN 0 ELSE IF blend > 1000 THEN 1000 ELSE blend]_vars

\* C18 witness: after more than a full period of the wave, an animation
\* has just run at a phase where the wave is near its floor at one cell,
\* and the field, once drawn at 0.999, has been pulled down with it.
C18_Witness ==
    /\ pc = "update"
    /\ wave_phase > 2 * PI100
    /\ \E y \in Cells : \E x \in Cells : Wave(wave_phase, x, y) <= 5
    /\ \E y \in Cells : \E x \in Cells : nutrient_map[y][x] <= 100

(***************************************************************************)
(* C19: the grids right after a reset.                                     *)
(***************************************************************************)
\* C19: a KEY_R step that changes any of the grid, the nutrient field or
\* the history, and the launch that enters the loop, leave every history
\* cell 0 and every grid cell 0 or 1.
C19_ResetClearsHistory ==
    [][(\/ pc = "launch" /\ pc' = "loop"
        \/ pc = "key_r" /\ <<grid, nutrient_map, history_map>>' #
                              <<grid, nutrient_map, history_map>>) =>
          \A y \in Cells : \A x \in Cells :
              history_map'[y][x] = 0 /\ grid'[y][x] \in {0, 1}]_vars

\* C19 witness: KEY_R has just been handled in the ResetEvery-th frame of
\* a run that ticked in every frame before: the nutrient field is a fresh
\* draw, the grid is the drawn block and the history is all 0.
C19_Witness ==
    /\ pc = "key_d"
    /\ wave_phase = ResetEvery * PHASE_STEP
    /\ nutrient_map \in {generate_nutrient_map(nd) : nd \in NutrientDraws}
    /\ grid = GridOf(BLOCK)
    /\ \A y \in Cells : \A x \in Cells : history_map[y][x] = 0

(***************************************************************************)
(* C20: the text on screen and the rule in use.                            *)
(***************************************************************************)
\* C20: in every state in which main is past its launch and has not died,
\* the DNA text parses, and it parses to exactly the birth list, the
\* survive list and the mutation rate that main passes to update_grid.
C20_TextParsesToRuleInUse ==
    Running =>
        /\ parse_dna(DNA).ok
        /\ parse_dna(DNA).birth = birth
        /\ parse_dna(DNA).survive = survive
        /\ parse_dna(DNA).mutation = mutation

\* C20 witness: the text and the rule are those of "B9/S23|M-0.5", under
\* which no cell is ever born, in a frame whose grid holds more live cells
\* than any drawn grid: the rule was edited after the tick before.
C20_Witness ==
    /\ pc = "animate"
    /\ DNA = TEXT_NINE
    /\ birth = <<9>> /\ survive = <<2, 3>> /\ mutation < 0
    /\ Cardinality({c \in Cells \X Cells : grid[c[2]][c[1]] = 1}) > 4

(***************************************************************************)
(* C17: the history does not feed back.                                    *)
(***************************************************************************)
\* C17: two runs that differ only in their history fields and get the same
\* keys, texts and draws have, after every step, the same grid, the same
\* new grid of the tick under way, the same nutrient field and the same
\* phase.
C17_HistoryHasNoFeedback ==
    /\ twin.grid = grid
    /\ twin.new_grid = new_grid
    /\ twin.nutrient_map = nutrient_map
    /\ twin.wave_phase = wave_phase

\* C17 witness: both runs have ticked since the start, the block has
\* changed into another grid that is not empty, the same in both runs,
\* and their histories still differ.
C17_Witness ==
    /\ pc = "loop"
    /\ wave_phase > PHASE_STEP
    /\ grid # GridOf(BLOCK) /\ grid # ZeroGrid
    /\ twin.grid = grid
    /\ twin.history_map # history_map
    /\ history_map # ZeroGrid

=============================================================================
